---- MODULE Spec2Model ----
(***************************************************************************)
(* A model of ScopeFoundry's logged_quantity.py: LoggedQuantity (a typed,  *)
(* observable value with optional hardware read/write hooks) and LQRange   *)
(* (min/max/step/num/center/span quantities kept in sync by Qt signals).   *)
(*                                                                         *)
(* Qt signals with direct connections are synchronous calls, so one        *)
(* externally issued call and the whole cascade of slots it triggers is a  *)
(* single step of the model. The cascade is computed by an interpreter    *)
(* over an explicit call stack: a "machine" record M holds the mutable     *)
(* state and the stack of frames, one operator per Python function runs    *)
(* the frame on top from its program counter to its next call or return,   *)
(* and Run iterates until the stack is empty.                              *)
(*                                                                         *)
(* Python floats are modelled as exact rationals [n, d] in lowest terms.   *)
(***************************************************************************)
EXTENDS Integers, Sequences, FiniteSets, TLC

\* ----------------------------------------------------------------- bounds

\* A caller passes x.update_value the values k/2 for k in 0..MaxHalves.
MaxHalves == 2
\* A caller passes min, max, center and span the integers 0..MaxVal, and
\* step the halves k/2 for k in -1..2*MaxVal.
MaxVal == 2
\* Largest num a caller sets directly.
MaxNum == 3
\* Number of interpreter steps after which a cascade counts as unbounded.
MaxSteps == 80
\* Longest choice list of a quantity.
MaxChoices == 2
\* Longest array an ArrayLQ holds or is passed.
MaxLen == 2

\* ------------------------------------------------------ program constants

\* spinbox_decimals of a float quantity (default argument).
DefaultDecimals == 2
\* spinbox_decimals of an int quantity, or one passed as spinbox_decimals=0.
IntDecimals == 0
\* initial=0 default of LoggedQuantity.__init__.
DefaultInitial == 0

\* -------------------------------------------------------------- rationals

Abs(i) == IF i < 0 THEN -i ELSE i

RECURSIVE Gcd(_, _)
Gcd(a, b) == IF b = 0 THEN a ELSE Gcd(b, a % b)

\* The rational n/d (d # 0) in lowest terms with a positive denominator.
Rat(n, d) ==
    LET s == IF d < 0 THEN -1 ELSE 1
        g == Gcd(Abs(n), Abs(d))
    IN  [n |-> (s * n) \div g, d |-> (s * d) \div g]

RInt(i) == [n |-> i, d |-> 1]
RAdd(a, b) == Rat(a.n * b.d + b.n * a.d, a.d * b.d)
RSub(a, b) == Rat(a.n * b.d - b.n * a.d, a.d * b.d)
RMul(a, b) == Rat(a.n * b.n, a.d * b.d)
RDiv(a, b) == Rat(a.n * b.d, a.d * b.n)
RLt(a, b) == a.n * b.d < b.n * a.d
RAbs(a) == [n |-> Abs(a.n), d |-> a.d]
RIsZero(a) == a.n = 0
\* Python's int(x): truncation toward zero.
Trunc(a) == IF a.n >= 0 THEN a.n \div a.d ELSE -((-a.n) \div a.d)
\* Mathematical floor.
Floor(a) == a.n \div a.d

RECURSIVE Pow10(_)
Pow10(k) == IF k = 0 THEN 1 ELSE 10 * Pow10(k - 1)

\* Python's None (oldval before the first update) and numpy's nan.
None == [n |-> 0, d |-> 0]
NaN == [n |-> 1, d |-> 0]

\* ------------------------------------------------------------ state

\* The quantities: "x" is a stand-alone LoggedQuantity with hardware hooks
\* and bound observers; the other six are the members of one LQRange.
Names == {"x", "min", "max", "step", "num", "center", "span"}
RangeNames == Names \ {"x"}

\* The overloads of updated_value, and updated_text_value.
Chans == {"void", "str", "text", "float", "int", "bool"}
\* A display widget is connected to each of these channels of the step
\* quantity, after the range's own slot; the model records the payload it
\* last received.
SeenChans == {"text", "float"}

VARIABLES
    lq,     \* lq[q]: the fields of quantity q (dtype, val, oldval, ...)
    hw,     \* the register of the device behind x's hardware hooks
    seen,   \* seen[c]: last payload step's widget on channel c received
    rng,    \* the LQRange's cache: _array_valid and _array
    cfg,    \* how the objects were constructed and connected (fixed)
    call    \* the last externally issued call and what it caused

vars == <<lq, hw, seen, rng, cfg, call>>

\* The machine a cascade runs on: the variables, the counters and pending
\* exception of the call in progress, and the call stack (top first).
Machine(l, h, s, r, c, frames) ==
    [lq |-> l, hw |-> h, seen |-> s, rng |-> r, cfg |-> c, stack |-> frames,
     nUpd |-> 0, nWrite |-> 0, nRead |-> 0, nNotify |-> 0, nRange |-> 0,
     choiceIdx |-> <<>>,
     fault |-> "none", failed |-> "none", failInSlot |-> FALSE,
     slotErr |-> 0, exc |-> "none", crashed |-> FALSE, diverged |-> FALSE]

\* A frame: the function, the quantity it runs on (self), its program
\* counter, its arguments and locals, and whether a signal invoked it.
Frame(fn, q, arg, slot) ==
    [fn |-> fn, q |-> q, pc |-> 0, arg |-> arg, slot |-> slot,
     update_hardware |-> TRUE, send_signal |-> TRUE,
     reread_hardware |-> "default", force |-> FALSE,
     str_val |-> None, pending |-> "none", payload |-> None]

UpdateValueFrame(q, new_val, uh, ss, rr, slot) ==
    [Frame("update_value", q, new_val, slot) EXCEPT
        !.update_hardware = uh, !.send_signal = ss, !.reread_hardware = rr]

SendDisplayUpdatesFrame(q, force, slot) ==
    [Frame("send_display_updates", q, None, slot) EXCEPT !.force = force]

Top(M) == Head(M.stack)
Pop(M) == [M EXCEPT !.stack = Tail(@)]
Push(M, f) == [M EXCEPT !.stack = <<f>> \o @]
\* The frame on top replaced by f (the caller with its pc advanced).
Replace(M, f) == [M EXCEPT !.stack = <<f>> \o Tail(@)]
\* The caller moves to pc and calls the function of frame g.
Call(M, pc, g) == Push(Replace(M, [Top(M) EXCEPT !.pc = pc]), g)

\* LoggedQuantity.__init__: val = dtype(initial), oldval = None,
\* _in_reread_loop = False, reread_from_hardware_after_write = False,
\* spinbox_decimals = 0 for int, choices = None (the empty sequence here;
\* a choice list is the sequence of its values).
NewDecimals(dtype, spinbox_decimals) ==
    IF dtype = "int" THEN IntDecimals ELSE spinbox_decimals

\* coerce_to_type: self.dtype(x).
CoerceToType(dtype, x) ==
    IF dtype = "int" THEN RInt(Trunc(x))
    ELSE IF dtype = "bool" THEN (IF RIsZero(x) THEN RInt(0) ELSE RInt(1))
    ELSE x

\* A string that float() and int() reject.
NotANumber == [txt |-> "abc"]

\* self.dtype(x) returns: x is a number. For anything else here it raises
\* ValueError.
Coercible(x) == "n" \in DOMAIN x

NewLQ(dtype, initial, spinbox_decimals) ==
    [cls |-> "LoggedQuantity",
     dtype |-> dtype,
     val |-> CoerceToType(dtype, initial),
     oldval |-> None,
     spinbox_decimals |-> NewDecimals(dtype, spinbox_decimals),
     hasRead |-> FALSE, hasWrite |-> FALSE,
     reread_from_hardware_after_write |-> FALSE,
     in_reread_loop |-> FALSE,
     choices |-> <<>>]

\* same_values: v1 == v2 (None equals only None).
SameValues(v1, v2) ==
    IF v1 = None \/ v2 = None THEN v1 = v2
    ELSE v1.n * v2.d = v2.n * v1.d

\* ------------------------------------------------------ "%g" formatting

\* The decimal exponent e of a positive rational: 10^e <= v < 10^(e+1).
RECURSIVE Exp10(_)
Exp10(v) ==
    IF RLt(v, RInt(1)) THEN Exp10(RMul(v, RInt(10))) - 1
    ELSE IF RLt(v, RInt(10)) THEN 0
    ELSE Exp10(RDiv(v, RInt(10))) + 1

\* Round a non-negative rational to the nearest integer, ties to even.
RoundHalfEven(v) ==
    LET f == Floor(v)
        twice == RSub(RMul(v, RInt(2)), RInt(2 * f))   \* 2 * frac(v)
    IN  IF RLt(twice, RInt(1)) THEN f
        ELSE IF RLt(RInt(1), twice) THEN f + 1
        ELSE IF f % 2 = 0 THEN f ELSE f + 1

\* The number that fmt % val prints for fmt = "%g": val rounded to six
\* significant digits.
FormatG(v) ==
    IF RIsZero(v) THEN v
    ELSE LET a == RAbs(v)
             e == Exp10(a)
             scale == IF e <= 5 THEN Rat(Pow10(5 - e), 1) ELSE Rat(1, Pow10(e - 5))
             m == RoundHalfEven(RMul(a, scale))
             r == RDiv(RInt(m), scale)
         IN  IF v.n < 0 THEN [n |-> -r.n, d |-> r.d] ELSE r

\* string_value: self.val for dtype str, else fmt % self.val: the text of
\* the formatted value.
StringValue(Q) ==
    IF Q.dtype = "str" THEN Q.val ELSE [txt |-> FormatG(Q.val), fmt |-> "%g"]

\* The text s was written by "%g" (anything else here is a plain string).
IsFormatted(s) == "fmt" \in DOMAIN s

\* How "%g" writes the number r it printed: as digits only ("integer"),
\* with a decimal point ("fixed"), or with an exponent ("exp") when the
\* decimal exponent is below -4 or at least 6.
Notation(r) ==
    IF RIsZero(r) THEN "integer"
    ELSE IF Exp10(RAbs(r)) < -4 \/ Exp10(RAbs(r)) >= 6 THEN "exp"
    ELSE IF r.d = 1 THEN "integer"
    ELSE "fixed"

\* self.dtype(s) returns for a str argument s: str and bool take any text,
\* float a number in any form, int only digits. Otherwise ValueError.
TextCoercible(dtype, s) ==
    CASE dtype \in {"str", "bool"} -> TRUE
      [] dtype = "float" -> IsFormatted(s)
      [] dtype = "int" -> IsFormatted(s) /\ Notation(s.txt) = "integer"

\* self.dtype(s) for a str argument s: bool(s) is True for every text but
\* the empty one.
CoerceText(dtype, s) ==
    CASE dtype = "str" -> s
      [] dtype = "bool" ->
            IF ~IsFormatted(s) /\ s.txt = "" THEN RInt(0) ELSE RInt(1)
      [] dtype \in {"float", "int"} -> s.txt

\* ------------------------------------------------------- exceptions

RECURSIVE BelowSlot(_)
\* The frames left once the innermost signal-invoked frame has unwound.
BelowSlot(frames) ==
    IF frames = <<>> THEN <<>>
    ELSE IF Head(frames).slot THEN Tail(frames)
    ELSE BelowSlot(Tail(frames))

InSlot(frames) == \E i \in 1..Len(frames) : frames[i].slot

\* raise e in the frame on top. An exception that leaves a slot does not
\* reach the emitter's Python frame: the binding prints it and the emit
\* goes on, or (PyQt5 >= 5.5) aborts the process. Outside any slot it
\* propagates to the external caller.
Raise(M, e) ==
    IF ~InSlot(M.stack) THEN [M EXCEPT !.exc = e, !.stack = <<>>]
    ELSE IF M.cfg.fatal THEN [M EXCEPT !.exc = e, !.crashed = TRUE, !.stack = <<>>]
    ELSE [M EXCEPT !.slotErr = @ + 1, !.stack = BelowSlot(@)]

\* --------------------------------------------------- LoggedQuantity

\* A hardware hook raises: the fault M.fault of the call in progress hits
\* the first invocation of that hook.
HookFails(M, e) ==
    Raise([M EXCEPT !.fault = "none", !.failed = M.fault,
                    !.failInSlot = InSlot(M.stack)], e)

\* A hook raised between machine M and machine Ma.
Raised(M, Ma) == Ma.failed # M.failed

\* hardware_set_func(self.val) of x: the device latches the value, or the
\* hook raises.
HardwareSetFunc(M, q) ==
    IF M.fault = "write"
    THEN HookFails([M EXCEPT !.nWrite = @ + 1], "IOError")
    ELSE [M EXCEPT !.hw = M.lq[q].val, !.nWrite = @ + 1]

\* hardware_read_func() of x: the device reports its register displaced
\* by its read-back error cfg.hwOff (zero for an exact echo).
HardwareReadFunc(M) == RAdd(M.hw, M.cfg.hwOff)

\* read_from_hardware with the hook call wrapped in a try block that
\* drops the exception.
StepReadFromHardware_SwallowError(M) ==
    LET f == Top(M)
        q == f.q
    IN  IF ~M.lq[q].hasRead THEN Pop(M)
        ELSE IF M.fault = "read"
        THEN LET M1 == [M EXCEPT !.lq[q].oldval = M.lq[q].val,
                                 !.nRead = @ + 1,
                                 !.fault = "none", !.failed = "read",
                                 !.failInSlot = InSlot(M.stack)]
             IN  IF f.send_signal
                 THEN Replace(M1, SendDisplayUpdatesFrame(q, FALSE, f.slot))
                 ELSE Pop(M1)
        ELSE
        LET val == HardwareReadFunc(M)
            M1 == [M EXCEPT !.lq[q].oldval = M.lq[q].val,
                            !.lq[q].val = CoerceToType(M.lq[q].dtype, val),
                            !.nRead = @ + 1]
        IN  IF f.send_signal
            THEN Replace(M1, SendDisplayUpdatesFrame(q, FALSE, f.slot))
            ELSE Pop(M1)

\* read_from_hardware that emits whether or not the value read differs
\* from the one it replaced.
StepReadFromHardware_ForceNotify(M) ==
    LET f == Top(M)
        q == f.q
    IN  IF ~M.lq[q].hasRead THEN Pop(M)
        ELSE IF M.fault = "read"
        THEN HookFails([M EXCEPT !.lq[q].oldval = M.lq[q].val,
                                 !.nRead = @ + 1], "IOError")
        ELSE
        LET val == HardwareReadFunc(M)
            M1 == [M EXCEPT !.lq[q].oldval = M.lq[q].val,
                            !.lq[q].val = CoerceToType(M.lq[q].dtype, val),
                            !.nRead = @ + 1]
        IN  IF f.send_signal
            THEN Replace(M1, SendDisplayUpdatesFrame(q, TRUE, f.slot))
            ELSE Pop(M1)

\* read_from_hardware(send_signal); the returned value is self.val.
StepReadFromHardware(M) ==
    LET f == Top(M)
        q == f.q
    IN  IF ~M.lq[q].hasRead THEN Pop(M)
        ELSE IF M.fault = "read"
        THEN HookFails([M EXCEPT !.lq[q].oldval = M.lq[q].val,
                                 !.nRead = @ + 1], "IOError")
        ELSE
        LET val == HardwareReadFunc(M)
            M1 == [M EXCEPT !.lq[q].oldval = M.lq[q].val,
                            !.lq[q].val = CoerceToType(M.lq[q].dtype, val),
                            !.nRead = @ + 1]
        IN  IF f.send_signal
            THEN Replace(M1, SendDisplayUpdatesFrame(q, FALSE, f.slot))
            ELSE Pop(M1)

ReadFromHardwareFrame(q, ss, slot) ==
    [Frame("read_from_hardware", q, None, slot) EXCEPT !.send_signal = ss]

\* update_value comparing the stored value with the argument as passed,
\* before coercion, in its same-value test.
StepUpdateValue_CompareRaw(M) ==
    LET f == Top(M)
        q == f.q
        Q == M.lq[q]
        send == IF f.send_signal
                THEN Replace(M, SendDisplayUpdatesFrame(q, FALSE, f.slot))
                ELSE Pop(M)
    IN  IF f.pc = 1 THEN send
        ELSE
        LET oldval == CoerceToType(Q.dtype, Q.val)
            new_val == CoerceToType(Q.dtype, f.arg)
            M1 == [M EXCEPT !.lq[q].oldval = oldval, !.nUpd = @ + 1]
        IN  IF ~Coercible(f.arg) THEN Raise(M1, "ValueError")
            ELSE IF SameValues(oldval, f.arg)
            THEN Pop([M1 EXCEPT !.lq[q].in_reread_loop = FALSE])
            ELSE
            LET M2 == [M1 EXCEPT !.lq[q].val = new_val]
                reread == IF f.reread_hardware = "default"
                          THEN Q.reread_from_hardware_after_write
                          ELSE f.reread_hardware = "yes"
            IN  IF f.update_hardware /\ Q.hasWrite /\ ~Q.in_reread_loop
                THEN LET Ma == HardwareSetFunc(M2, q)
                     IN  IF Raised(M2, Ma) THEN Ma
                         ELSE IF reread
                         THEN Call([Ma EXCEPT !.lq[q].in_reread_loop = TRUE], 1,
                                   ReadFromHardwareFrame(q, FALSE, FALSE))
                         ELSE Replace(Ma, [f EXCEPT !.pc = 1])
                ELSE Replace(M2, [f EXCEPT !.pc = 1])

\* update_value storing new_val as passed before it coerces it.
StepUpdateValue_StoreThenCoerce(M) ==
    LET f == Top(M)
        q == f.q
        Q == M.lq[q]
        send == IF f.send_signal
                THEN Replace(M, SendDisplayUpdatesFrame(q, FALSE, f.slot))
                ELSE Pop(M)
    IN  IF f.pc = 1 THEN send
        ELSE
        LET oldval == CoerceToType(Q.dtype, Q.val)
            new_val == CoerceToType(Q.dtype, f.arg)
            M1 == [M EXCEPT !.lq[q].oldval = oldval, !.nUpd = @ + 1]
        IN  IF ~Coercible(f.arg)
            THEN Raise([M1 EXCEPT !.lq[q].val = f.arg], "ValueError")
            ELSE IF SameValues(oldval, new_val)
            THEN Pop([M1 EXCEPT !.lq[q].in_reread_loop = FALSE])
            ELSE
            LET M2 == [M1 EXCEPT !.lq[q].val = new_val]
                reread == IF f.reread_hardware = "default"
                          THEN Q.reread_from_hardware_after_write
                          ELSE f.reread_hardware = "yes"
            IN  IF f.update_hardware /\ Q.hasWrite /\ ~Q.in_reread_loop
                THEN LET Ma == HardwareSetFunc(M2, q)
                     IN  IF Raised(M2, Ma) THEN Ma
                         ELSE IF reread
                         THEN Call([Ma EXCEPT !.lq[q].in_reread_loop = TRUE], 1,
                                   ReadFromHardwareFrame(q, FALSE, FALSE))
                         ELSE Replace(Ma, [f EXCEPT !.pc = 1])
                ELSE Replace(M2, [f EXCEPT !.pc = 1])

\* update_value(new_val, update_hardware, send_signal, reread_hardware);
\* reread_hardware is "default" (None), "yes" or "no". pc 1 is line 163,
\* after the hardware block.
StepUpdateValue(M) ==
    LET f == Top(M)
        q == f.q
        Q == M.lq[q]
        send == IF f.send_signal
                THEN Replace(M, SendDisplayUpdatesFrame(q, FALSE, f.slot))
                ELSE Pop(M)
    IN  IF f.pc = 1 THEN send
        ELSE
        LET oldval == CoerceToType(Q.dtype, Q.val)
            new_val == CoerceToType(Q.dtype, f.arg)
            M1 == [M EXCEPT !.lq[q].oldval = oldval, !.nUpd = @ + 1]
        IN  IF ~Coercible(f.arg) THEN Raise(M1, "ValueError")
            ELSE IF SameValues(oldval, new_val)
            THEN Pop([M1 EXCEPT !.lq[q].in_reread_loop = FALSE])
            ELSE
            LET M2 == [M1 EXCEPT !.lq[q].val = new_val]
                reread == IF f.reread_hardware = "default"
                          THEN Q.reread_from_hardware_after_write
                          ELSE f.reread_hardware = "yes"
            IN  IF f.update_hardware /\ Q.hasWrite /\ ~Q.in_reread_loop
                THEN LET Ma == HardwareSetFunc(M2, q)
                     IN  IF Raised(M2, Ma) THEN Ma
                         ELSE IF reread
                         THEN Call([Ma EXCEPT !.lq[q].in_reread_loop = TRUE], 1,
                                   ReadFromHardwareFrame(q, FALSE, FALSE))
                         ELSE Replace(Ma, [f EXCEPT !.pc = 1])
                ELSE Replace(M2, [f EXCEPT !.pc = 1])

\* update_choice_index_value(new_choice_index): update_value of
\* self.choices[new_choice_index][1], indexed as a Python list is
\* (-n..-1 count from the end, anything else outside 0..n-1 raises).
StepUpdateChoiceIndexValue(M) ==
    LET f == Top(M)
        Q == M.lq[f.q]
        n == Len(Q.choices)
        i == f.arg.n
    IN  IF i >= n \/ i < -n THEN Raise(M, "IndexError")
        ELSE Replace(M, UpdateValueFrame(f.q,
                            Q.choices[IF i >= 0 THEN i + 1 ELSE n + i + 1],
                            TRUE, TRUE, "default", f.slot))

\* The slot connected to channel chan of quantity q, "none" if there is
\* none: the observer bound to x (it feeds each payload back into
\* update_value), or the slot LQRange.__init__ connects.
Slot(c, q, chan) ==
    IF q = "x"
    THEN IF chan \in c.echo THEN "update_value" ELSE "none"
    ELSE IF ~c.wired THEN "none"
    ELSE IF q = "num" /\ chan = "int" THEN "recalc_with_new_num"
    ELSE IF q \in {"min", "max"} /\ chan = "float" THEN "recalc_with_new_min_max"
    ELSE IF q = "step" /\ chan = "float" THEN "recalc_with_new_step"
    ELSE IF q \in {"center", "span"} /\ chan = "float" /\ c.hasCS
         THEN "recalc_with_new_center_span"
    ELSE "none"

\* The frame of a slot invoked with a signal's payload.
SlotFrame(slot, q, payload) ==
    IF slot = "update_value"
    THEN UpdateValueFrame(q, payload, TRUE, TRUE, "default", TRUE)
    ELSE Frame(slot, q, payload, TRUE)

\* A passive observer of step, connected after the slots above (a display
\* widget), receives the payload.
Deliver(M, q, chan, payload) ==
    IF M.cfg.watched /\ q = "step" /\ chan \in SeenChans
    THEN [M EXCEPT !.seen[chan] = payload]
    ELSE IF chan = "choice"
    THEN [M EXCEPT !.choiceIdx = Append(@, payload)]
    ELSE M

\* choice_vals.index(v): the 0-based position of the first choice equal
\* to v.
ChoiceIndex(choices, v) ==
    (CHOOSE i \in 1..Len(choices) :
        /\ SameValues(choices[i], v)
        /\ \A j \in 1..(i - 1) : ~SameValues(choices[j], v)) - 1

\* self.val in choice_vals
InChoices(choices, v) == \E i \in 1..Len(choices) : SameValues(choices[i], v)

\* The order in which send_display_updates emits; the last is
\* updated_choice_index_value.
ChanOrder == <<"void", "str", "text", "float", "int", "bool", "choice">>

RECURSIVE EmitFrom(_, _)
\* The emits of send_display_updates from the i-th on, up to the next one
\* that has a slot to call, or to the end (self.oldval = self.val).
EmitFrom(M, i) ==
    LET f == Top(M)
        q == f.q
        Q == M.lq[q]
    IN  IF i > Len(ChanOrder) THEN Pop([M EXCEPT !.lq[q].oldval = Q.val])
        ELSE
        LET chan == ChanOrder[i]
            str_val == IF chan = "str" THEN StringValue(Q) ELSE f.str_val
            payload == CASE chan = "void" -> None
                         [] chan \in {"str", "text"} -> str_val
                         [] chan = "float" -> Q.val
                         [] chan = "int" -> RInt(Trunc(Q.val))
                         [] chan = "bool" -> ~RIsZero(Q.val)
                         [] chan = "choice" ->
                                IF InChoices(Q.choices, Q.val)
                                THEN ChoiceIndex(Q.choices, Q.val) ELSE -1
            slot == Slot(M.cfg, q, chan)
            g == [f EXCEPT !.str_val = str_val]
        IN  IF \/ chan \in {"float", "int"} /\ Q.dtype \notin {"float", "int"}
               \/ chan = "choice" /\ ~InChoices(Q.choices, Q.val)
            THEN EmitFrom(M, i + 1)
            ELSE IF slot = "none"
            THEN EmitFrom(Deliver(Replace(M, g), q, chan, payload), i + 1)
            ELSE Push(Replace(M, [g EXCEPT !.pc = i + 1, !.pending = chan,
                                           !.payload = payload]),
                      SlotFrame(slot, q, payload))

\* send_display_updates that tests only whether the value changed and
\* ignores force.
StepSendDisplayUpdates_IgnoreForce(M) ==
    LET f == Top(M)
        q == f.q
    IN  IF f.pc = 0
        THEN IF ~SameValues(M.lq[q].oldval, M.lq[q].val)
             THEN EmitFrom([M EXCEPT !.nNotify = @ + 1], 1)
             ELSE Pop(M)
        ELSE EmitFrom(Deliver(Replace(M, [f EXCEPT !.pending = "none"]),
                              q, f.pending, f.payload),
                      f.pc)

\* send_display_updates(force). pc 0 is the entry; pc i + 1 is the return
\* of the slot called by the i-th emit.
StepSendDisplayUpdates(M) ==
    LET f == Top(M)
        q == f.q
    IN  IF f.pc = 0
        THEN IF ~SameValues(M.lq[q].oldval, M.lq[q].val) \/ f.force
             THEN EmitFrom([M EXCEPT !.nNotify = @ + 1], 1)
             ELSE Pop(M)
        ELSE EmitFrom(Deliver(Replace(M, [f EXCEPT !.pending = "none"]),
                              q, f.pending, f.payload),
                      f.pc)

\* ---------------------------------------------------------- ArrayLQ

\* ArrayLQ.coerce_to_type: np.array(x, dtype=self.dtype), for x a sequence
\* of numbers; a one-dimensional array is the record of the sequence of
\* its elements.
ArrayCoerceToType(dtype, x) ==
    [elems |-> [i \in 1..Len(x.elems) |-> CoerceToType(dtype, x.elems[i])]]

\* v.shape[0]
Size(v) == Len(v.elems)

\* ArrayLQ.__init__: val = np.array(initial, dtype=dtype).
NewArrayLQ(dtype, initial) ==
    [NewLQ(dtype, RInt(DefaultInitial), DefaultDecimals) EXCEPT
        !.cls = "ArrayLQ", !.val = ArrayCoerceToType(dtype, initial)]

\* ArrayLQ.same_values: equal shapes and np.all(v1 == v2).
ArraySameValues(v1, v2) ==
    /\ Size(v1) = Size(v2)
    /\ \A i \in 1..Size(v1) : SameValues(v1.elems[i], v2.elems[i])

\* ArrayLQ.string_value: json.dumps(self.val.tolist()), which writes every
\* element exactly (an int as its digits, a float as its repr).
ArrayStringValue(Q) == [json |-> Q.val.elems]

\* ArrayLQ.coerce_to_type of a str: np.array(json.loads(x), dtype).
ArrayCoerceText(dtype, s) == ArrayCoerceToType(dtype, [elems |-> s.json])

\* Shapes (m,) and (n,) broadcast against each other.
Broadcastable(m, n) == m = n \/ m = 1 \/ n = 1

\* np.any(v1 != v2) for arrays of broadcastable shapes: the comparison is
\* elementwise over the broadcast shape, which is empty if either is.
ArrayAnyDiffers(v1, v2) ==
    LET len == IF Size(v1) = 0 \/ Size(v2) = 0 THEN 0
               ELSE IF Size(v1) >= Size(v2) THEN Size(v1) ELSE Size(v2)
        At(v, i) == IF Size(v) = 1 THEN v.elems[1] ELSE v.elems[i]
    IN  \E i \in 1..len : ~SameValues(At(v1, i), At(v2, i))

\* update_value as ArrayLQ inherits it, with ArrayLQ's coerce_to_type and
\* same_values. pc 1 is line 163.
StepArrayUpdateValue(M) ==
    LET f == Top(M)
        q == f.q
        Q == M.lq[q]
        send == IF f.send_signal
                THEN Replace(M, SendDisplayUpdatesFrame(q, FALSE, f.slot))
                ELSE Pop(M)
    IN  IF f.pc = 1 THEN send
        ELSE
        LET oldval == ArrayCoerceToType(Q.dtype, Q.val)
            new_val == ArrayCoerceToType(Q.dtype, f.arg)
            M1 == [M EXCEPT !.lq[q].oldval = oldval, !.nUpd = @ + 1]
        IN  IF ArraySameValues(oldval, new_val)
            THEN Pop([M1 EXCEPT !.lq[q].in_reread_loop = FALSE])
            ELSE
            LET M2 == [M1 EXCEPT !.lq[q].val = new_val]
                reread == IF f.reread_hardware = "default"
                          THEN Q.reread_from_hardware_after_write
                          ELSE f.reread_hardware = "yes"
            IN  IF f.update_hardware /\ Q.hasWrite /\ ~Q.in_reread_loop
                THEN LET Ma == HardwareSetFunc(M2, q)
                     IN  IF Raised(M2, Ma) THEN Ma
                         ELSE IF reread
                         THEN Call([Ma EXCEPT !.lq[q].in_reread_loop = TRUE], 1,
                                   ReadFromHardwareFrame(q, FALSE, FALSE))
                         ELSE Replace(Ma, [f EXCEPT !.pc = 1])
                ELSE Replace(M2, [f EXCEPT !.pc = 1])

\* ArrayLQ.send_display_updates(force): emits str, text and () when
\* force or np.any(self.oldval != self.val). For shapes that do not
\* broadcast, != gives True in a numpy that only warns, and raises
\* ValueError in a numpy that is strict (cfg.npStrict).
StepArraySendDisplayUpdates(M) ==
    LET f == Top(M)
        q == f.q
        Q == M.lq[q]
        emit == Pop([M EXCEPT !.nNotify = @ + 1, !.lq[q].oldval = Q.val])
    IN  IF f.force THEN emit
        ELSE IF Q.oldval = None THEN emit
        ELSE IF ~Broadcastable(Size(Q.oldval), Size(Q.val))
        THEN IF M.cfg.npStrict THEN Raise(M, "ValueError") ELSE emit
        ELSE IF ArrayAnyDiffers(Q.oldval, Q.val) THEN emit
        ELSE Pop(M)

\* ---------------------------------------------------------- LQRange

\* compute_step(xmin, xmax, num); num is a Python int.
ComputeStep(xmin, xmax, num) ==
    LET delta == RSub(xmax, xmin)
    IN  IF num > 1 THEN RDiv(delta, RInt(num - 1)) ELSE delta

\* compute_step on int operands where / is floor division (Python 2).
ComputeStepFloorDiv(xmin, xmax, num) ==
    LET delta == RSub(xmax, xmin)
    IN  IF num > 1 THEN RInt(Floor(RDiv(delta, RInt(num - 1)))) ELSE delta

\* self.compute_step(xmin, xmax, num) as the running interpreter divides.
ComputeStepOn(M, xmin, xmax, num) ==
    IF M.cfg.floorDiv THEN ComputeStepFloorDiv(xmin, xmax, num)
    ELSE ComputeStep(xmin, xmax, num)

\* The step the current min, max and num imply.
CurrentStep(l) == ComputeStep(l["min"].val, l["max"].val, l["num"].val.n)

\* 10**(-self.step.spinbox_decimals)
Tolerance(l) == Rat(1, Pow10(l["step"].spinbox_decimals))

\* self._array_valid = False; self._array = None
InvalidArray == [array_valid |-> FALSE, array |-> <<>>]

\* numpy.linspace(start, stop, num) for num >= 0.
Linspace(start, stop, num) ==
    [i \in 1..num |->
        IF num = 1 THEN start
        ELSE RAdd(start, RMul(RInt(i - 1), RDiv(RSub(stop, start), RInt(num - 1))))]

\* The array property: the cached array if valid, else a fresh linspace
\* that becomes the cache.
ArrayProperty(l, r) ==
    IF r.array_valid THEN r
    ELSE [array_valid |-> TRUE,
          array |-> Linspace(l["min"].val, l["max"].val, l["num"].val.n)]

\* updated_range.emit(), then return.
EmitUpdatedRangeAndReturn(M) == Pop([M EXCEPT !.nRange = @ + 1])

DefaultUpdate(q, v) == UpdateValueFrame(q, v, TRUE, TRUE, "default", FALSE)

\* recalc_with_new_num(new_num); new_num is the int payload.
StepRecalcWithNewNum(M) ==
    LET f == Top(M)
        l == M.lq
    IN  IF f.pc = 0
        THEN Call([M EXCEPT !.rng = InvalidArray], 1,
                  DefaultUpdate("step",
                      ComputeStepOn(M, l["min"].val, l["max"].val,
                                    Trunc(f.arg))))
        ELSE IF f.pc = 1
        THEN Call(M, 2, SendDisplayUpdatesFrame("step", TRUE, FALSE))
        ELSE EmitUpdatedRangeAndReturn(M)

\* recalc_with_new_min_max(x)
StepRecalcWithNewMinMax(M) ==
    LET f == Top(M)
        l == M.lq
    IN  IF f.pc = 0
        THEN Call([M EXCEPT !.rng = InvalidArray], 1,
                  DefaultUpdate("step",
                      ComputeStepOn(M, l["min"].val, l["max"].val,
                                    l["num"].val.n)))
        ELSE IF f.pc = 1 /\ M.cfg.hasCS
        THEN Call(M, 2,
                  DefaultUpdate("span",
                      RAdd(RMul(Rat(1, 2), RSub(l["max"].val, l["min"].val)),
                           l["min"].val)))
        ELSE IF f.pc = 2 /\ M.cfg.hasCS
        THEN Call(M, 3,
                  DefaultUpdate("span", RSub(l["max"].val, l["min"].val)))
        ELSE EmitUpdatedRangeAndReturn(M)

\* recalc_with_new_step without the early return for a step within the
\* tolerance of the old one.
StepRecalcWithNewStep_NoTolerance(M) ==
    LET f == Top(M)
        l == M.lq
        new_step == f.arg
    IN  IF f.pc = 1 THEN EmitUpdatedRangeAndReturn(M)
        ELSE IF RIsZero(new_step)
        THEN Raise([M EXCEPT !.rng = InvalidArray], "ZeroDivisionError")
        ELSE
        LET new_num == Trunc(RAdd(RDiv(RSub(l["max"].val, l["min"].val), new_step),
                                  RInt(1)))
            new_step1 == ComputeStepOn(M, l["min"].val, l["max"].val, new_num)
        IN  Call([M EXCEPT !.rng = InvalidArray, !.lq["step"].val = new_step1], 1,
                 DefaultUpdate("num", RInt(new_num)))

\* recalc_with_new_step(new_step)
StepRecalcWithNewStep(M) ==
    LET f == Top(M)
        l == M.lq
        new_step == f.arg
        old_step == IF l["num"].val.n > 1
                    THEN ComputeStepOn(M, l["min"].val, l["max"].val,
                                       l["num"].val.n)
                    ELSE NaN
        close == /\ old_step # NaN
                 /\ RLt(RAbs(RSub(old_step, new_step)), Tolerance(l))
    IN  IF f.pc = 1 THEN EmitUpdatedRangeAndReturn(M)
        ELSE IF close THEN Pop(M)
        ELSE IF RIsZero(new_step)
        THEN Raise([M EXCEPT !.rng = InvalidArray], "ZeroDivisionError")
        ELSE
        LET new_num == Trunc(RAdd(RDiv(RSub(l["max"].val, l["min"].val), new_step),
                                  RInt(1)))
            new_step1 == ComputeStepOn(M, l["min"].val, l["max"].val, new_num)
        IN  Call([M EXCEPT !.rng = InvalidArray, !.lq["step"].val = new_step1], 1,
                 DefaultUpdate("num", RInt(new_num)))

\* recalc_with_new_center_span(x): self.min.updated_value(C - 0.5*S) calls
\* the signal object itself, which is not callable.
StepRecalcWithNewCenterSpan(M) == Raise(M, "TypeError")

\* ------------------------------------------------------ interpreter

\* One step of the frame on top of the stack.
Step(M) ==
    LET fn == Top(M).fn
        isArray == M.lq[Top(M).q].cls = "ArrayLQ"
    IN  CASE fn = "update_value" /\ isArray -> StepArrayUpdateValue(M)
          [] fn = "send_display_updates" /\ isArray ->
                StepArraySendDisplayUpdates(M)
          [] fn = "update_value" /\ ~isArray -> StepUpdateValue(M)
          [] fn = "send_display_updates" /\ ~isArray -> StepSendDisplayUpdates(M)
          [] fn = "read_from_hardware" -> StepReadFromHardware(M)
          [] fn = "update_choice_index_value" -> StepUpdateChoiceIndexValue(M)
          [] fn = "recalc_with_new_num" -> StepRecalcWithNewNum(M)
          [] fn = "recalc_with_new_min_max" -> StepRecalcWithNewMinMax(M)
          [] fn = "recalc_with_new_step" -> StepRecalcWithNewStep(M)
          [] fn = "recalc_with_new_center_span" -> StepRecalcWithNewCenterSpan(M)

RECURSIVE RunFor(_, _)
\* The machine after n more steps of M0, or at the return of its call if
\* that comes first: the first half of the steps, then the rest.
RunFor(M0, n) ==
    CHOOSE R \in {IF M.stack = <<>> \/ n = 0 THEN M
                  ELSE IF n = 1 THEN Step(M)
                  ELSE RunFor(RunFor(M, n \div 2), n - (n \div 2)) :
                  M \in {M0}} : TRUE

\* A machine whose call has not returned is cut and marked as diverged.
Cut(M) ==
    IF M.stack = <<>> THEN M ELSE [M EXCEPT !.diverged = TRUE, !.stack = <<>>]

\* The call on the stack and all it triggers, to its return; a cascade of
\* more than n steps is cut and marked as diverged.
Run(M, n) == Cut(RunFor(M, n))

\* --------------------------------------------------- construction

\* Values a caller passes to x.update_value.
XVals == {Rat(k, 2) : k \in 0..MaxHalves}

NoCall ==
    [op |-> "none", q |-> "none", arg |-> None, same |-> FALSE,
     update_hardware |-> TRUE, send_signal |-> TRUE, reread_hardware |-> "default",
     nUpd |-> 0, nWrite |-> 0, nRead |-> 0, nNotify |-> 0, nRange |-> 0,
     choiceIdx |-> <<>>, ret |-> None, failed |-> "none", failInSlot |-> FALSE,
     force |-> FALSE,
     slotErr |-> 0, exc |-> "none", crashed |-> FALSE, diverged |-> FALSE]

\* What the model keeps of a finished external call: the call, whether
\* its argument coerced to the value its quantity had before, and what the
\* call and its cascade did.
CallRecord(f, same, M) ==
    [op |-> f.fn, q |-> f.q, arg |-> f.arg, same |-> same,
     update_hardware |-> f.update_hardware, send_signal |-> f.send_signal,
     reread_hardware |-> f.reread_hardware,
     nUpd |-> M.nUpd, nWrite |-> M.nWrite, nRead |-> M.nRead,
     nNotify |-> M.nNotify, nRange |-> M.nRange,
     choiceIdx |-> M.choiceIdx,
     ret |-> IF f.fn = "read_from_hardware" /\ M.exc = "none" /\ ~M.crashed
                /\ ~M.diverged
             THEN M.lq[f.q].val ELSE None,
     failed |-> M.failed, failInSlot |-> M.failInSlot,
     force |-> f.force,
     slotErr |-> M.slotErr, exc |-> M.exc,
     crashed |-> M.crashed, diverged |-> M.diverged]

NothingSeen == [c \in SeenChans |-> None]

\* LQCollection.New for the six quantities of New_Range: kwargs reach
\* min, max, step, center and span; num is New(name, dtype=int, vmin=1).
NewRangeMembersOf(dtype, initial, spinbox_decimals) ==
    [q \in RangeNames |->
        IF q = "num" THEN NewLQ("int", RInt(DefaultInitial), DefaultDecimals)
        ELSE NewLQ(dtype, initial, spinbox_decimals)]

\* New_Range(name, initial, spinbox_decimals): dtype is the default, float.
NewRangeMembers(initial, spinbox_decimals) ==
    NewRangeMembersOf("float", initial, spinbox_decimals)

\* The process is gone once a slot's exception aborted it, and the model
\* stops at a cascade longer than MaxSteps.
Running == ~call.crashed /\ ~call.diverged

\* The argument of a call coerces to the value quantity Q holds.
SameAsStored(Q, arg) ==
    IF arg = None \/ arg = NotANumber THEN FALSE
    ELSE IF Q.cls = "ArrayLQ"
    THEN ArraySameValues(Q.val, ArrayCoerceToType(Q.dtype, arg))
    ELSE SameValues(Q.val, CoerceToType(Q.dtype, arg))

\* The external call of frame f, run to its return or to the exception
\* that ends it; fault names the hardware hook that raises during the call
\* ("write", "read"), if one does.
ExternalCallWith(f, fault) ==
    \E M \in {Run([Machine(lq, hw, seen, rng, cfg, <<f>>) EXCEPT !.fault = fault],
                  MaxSteps)} :
        /\ lq' = M.lq
        /\ hw' = M.hw
        /\ seen' = M.seen
        /\ rng' = M.rng
        /\ call' = CallRecord(f, SameAsStored(lq[f.q], f.arg), M)
        /\ UNCHANGED cfg

\* The external call of frame f with hooks that do not raise.
ExternalCall(f) == ExternalCallWith(f, "none")

\* ------------------------------------------- a stand-alone quantity

\* x = LoggedQuantity(name, dtype, hardware_read_func, hardware_set_func)
\* with reread_from_hardware_after_write assigned by its owner, and an
\* observer bound to the channels cfg.echo.
InitLQ ==
    \E dtype \in {"float", "int"}, hooks \in {"none", "write", "readwrite"},
       reread \in BOOLEAN, off \in {RInt(0), Rat(1, 2)},
       echo \in {{}, {"float"}, {"int"}, {"float", "int"}} :
        /\ hooks # "readwrite" => (~reread /\ off = RInt(0))
        /\ lq = [q \in Names |->
                   IF q = "x"
                   THEN [NewLQ(dtype, RInt(DefaultInitial), DefaultDecimals)
                            EXCEPT !.hasWrite = hooks # "none",
                                   !.hasRead = hooks = "readwrite",
                                   !.reread_from_hardware_after_write = reread]
                   ELSE NewRangeMembers(RInt(DefaultInitial), DefaultDecimals)[q]]
        /\ hw = RInt(DefaultInitial)
        /\ seen = NothingSeen
        /\ rng = InvalidArray
        /\ cfg = [fatal |-> FALSE, echo |-> echo, hwOff |-> off,
                  hasCS |-> FALSE, wired |-> FALSE, watched |-> FALSE]
        /\ call = NoCall

\* x.update_value(v, update_hardware, send_signal, reread_hardware)
XUpdateValue ==
    /\ Running
    /\ \E v \in XVals, uh \in BOOLEAN, ss \in BOOLEAN, rr \in {"default", "yes", "no"} :
        ExternalCall(UpdateValueFrame("x", v, uh, ss, rr, FALSE))

\* x.read_from_hardware(send_signal)
XReadFromHardware ==
    /\ Running
    /\ \E ss \in BOOLEAN : ExternalCall(ReadFromHardwareFrame("x", ss, FALSE))

\* LQCollection.New("x", dtype) on the registry that holds x: the new
\* quantity, with no hooks and no listeners, takes the name.
XNew ==
    /\ Running
    /\ \E dtype \in {"float", "int"} :
        lq' = [lq EXCEPT !["x"] = NewLQ(dtype, RInt(DefaultInitial), DefaultDecimals)]
    /\ cfg' = [cfg EXCEPT !.echo = {}]
    /\ call' = [NoCall EXCEPT !.op = "New", !.q = "x"]
    /\ UNCHANGED <<hw, seen, rng>>

NextLQ == XUpdateValue \/ XReadFromHardware \/ XNew

\* x.send_display_updates(force)
XSendDisplayUpdates ==
    /\ Running
    /\ \E force \in BOOLEAN :
        ExternalCall(SendDisplayUpdatesFrame("x", force, FALSE))

NextNotify == XUpdateValue \/ XReadFromHardware \/ XSendDisplayUpdates

\* The stand-alone quantity whose owner also calls send_display_updates.
SpecNotify == InitLQ /\ [][NextNotify]_vars

SpecLQ == InitLQ /\ [][NextLQ]_vars

\* x.update_value(v, update_hardware, send_signal, reread_hardware) with a
\* v that does not convert to a number.
XUpdateValueNotANumber ==
    /\ Running
    /\ \E uh \in BOOLEAN, ss \in BOOLEAN, rr \in {"default", "yes", "no"} :
        ExternalCall(UpdateValueFrame("x", NotANumber, uh, ss, rr, FALSE))

\* x.update_value(v, send_signal=ss, reread_hardware=rr) during which a
\* hardware hook raises.
XUpdateValueFaulty ==
    /\ Running
    /\ \E v \in XVals, ss \in BOOLEAN, rr \in {"default", "yes"},
          fault \in {"write", "read"} :
        ExternalCallWith(UpdateValueFrame("x", v, TRUE, ss, rr, FALSE), fault)

\* x.read_from_hardware(send_signal) during which the read hook raises.
XReadFromHardwareFaulty ==
    /\ Running
    /\ \E ss \in BOOLEAN :
        ExternalCallWith(ReadFromHardwareFrame("x", ss, FALSE), "read")

\* x.update_value(v) with default options.
XUpdateValueDefault ==
    /\ Running
    /\ \E v \in XVals : ExternalCall(DefaultUpdate("x", v))

NextAnyInput == XUpdateValueDefault \/ XUpdateValueNotANumber

NextFaulty ==
    \/ XUpdateValueDefault
    \/ XReadFromHardware
    \/ XUpdateValueFaulty
    \/ XReadFromHardwareFaulty

\* The stand-alone quantity with hardware hooks that may raise.
SpecFaulty == InitLQ /\ [][NextFaulty]_vars

\* The stand-alone quantity, passed numbers and non-numbers.
SpecAnyInput == InitLQ /\ [][NextAnyInput]_vars

\* ------------------------------------------ a quantity with choices

\* _expand_choices: each choice's value coerced with dtype.
ExpandChoices(dtype, choices) ==
    [i \in 1..Len(choices) |-> CoerceToType(dtype, choices[i])]

\* The choice lists a quantity is constructed with (the values; names play
\* no part).
ChoiceLists == UNION {[1..n -> XVals] : n \in 1..MaxChoices}

\* x = LoggedQuantity(name, dtype, choices=choices), no hooks.
InitChoice ==
    \E dtype \in {"float", "int"}, choices \in ChoiceLists :
        /\ lq = [q \in Names |->
                   IF q = "x"
                   THEN [NewLQ(dtype, RInt(DefaultInitial), DefaultDecimals)
                            EXCEPT !.choices = ExpandChoices(dtype, choices)]
                   ELSE NewRangeMembers(RInt(DefaultInitial), DefaultDecimals)[q]]
        /\ hw = RInt(DefaultInitial)
        /\ seen = NothingSeen
        /\ rng = InvalidArray
        /\ cfg = [fatal |-> FALSE, echo |-> {}, hwOff |-> RInt(0),
                  hasCS |-> FALSE, wired |-> FALSE, watched |-> FALSE]
        /\ call = NoCall

\* x.update_choice_index_value(i)
XUpdateChoiceIndexValue ==
    /\ Running
    /\ \E i \in (-(MaxChoices + 1))..MaxChoices :
        ExternalCall(Frame("update_choice_index_value", "x", RInt(i), FALSE))

NextChoice == XUpdateChoiceIndexValue \/ XUpdateValue

SpecChoice == InitChoice /\ [][NextChoice]_vars

\* ------------------------------------------------- an array quantity

\* The arrays a caller passes: sequences of 0 and 1 of length 0..MaxLen.
ArrayVals ==
    {[elems |-> s] : s \in UNION {[1..n -> {RInt(0), RInt(1)}] : n \in 0..MaxLen}}

\* x = ArrayLQ(name, dtype, hardware_set_func, initial), with either
\* kind of numpy.
InitArray ==
    \E dtype \in {"float", "int"}, initial \in ArrayVals,
       hasWrite \in BOOLEAN, npStrict \in BOOLEAN :
        /\ lq = [q \in Names |->
                   IF q = "x"
                   THEN [NewArrayLQ(dtype, initial) EXCEPT !.hasWrite = hasWrite]
                   ELSE NewRangeMembers(RInt(DefaultInitial), DefaultDecimals)[q]]
        /\ hw = RInt(DefaultInitial)
        /\ seen = NothingSeen
        /\ rng = InvalidArray
        /\ cfg = [fatal |-> FALSE, echo |-> {}, hwOff |-> RInt(0),
                  hasCS |-> FALSE, wired |-> FALSE, watched |-> FALSE,
                  npStrict |-> npStrict]
        /\ call = NoCall

\* x.update_value(v, send_signal=ss) on the array quantity.
XArrayUpdateValue ==
    /\ Running
    /\ \E v \in ArrayVals, ss \in BOOLEAN :
        ExternalCall(UpdateValueFrame("x", v, TRUE, ss, "default", FALSE))

NextArray == XArrayUpdateValue

SpecArray == InitArray /\ [][NextArray]_vars

\* ------------------------------------------- a quantity's display text

\* The smallest positive int that "%g" writes with an exponent.
FirstExpInt == Pow10(6)

\* Initial values of a scalar quantity of each dtype.
DisplayVals(dtype) ==
    CASE dtype = "bool" -> {RInt(0), RInt(1)}
      [] dtype = "int" ->
            {RInt(k) : k \in (-MaxVal)..MaxVal}
                \cup {RInt(FirstExpInt - 1), RInt(FirstExpInt), RInt(-FirstExpInt)}
      [] dtype = "float" ->
            {Rat(k, 2) : k \in (-MaxHalves)..MaxHalves}
                \cup {Rat(1, 3), Rat(1, 8), RInt(FirstExpInt), RInt(1234567)}
      [] dtype = "str" -> {[txt |-> ""], [txt |-> "abc"], [txt |-> "0"], [txt |-> "1e3"]}

\* x = LoggedQuantity(name, dtype, initial=v) or ArrayLQ(name, dtype,
\* initial=v).
InitDisplay ==
    /\ \E x \in UNION {{NewLQ(dtype, v, DefaultDecimals) :
                            v \in DisplayVals(dtype)} :
                          dtype \in {"bool", "int", "float", "str"}}
               \cup {NewArrayLQ(dtype, v) :
                        dtype \in {"float", "int"}, v \in ArrayVals} :
        lq = [q \in Names |->
                IF q = "x" THEN x
                ELSE NewRangeMembers(RInt(DefaultInitial), DefaultDecimals)[q]]
    /\ hw = RInt(DefaultInitial)
    /\ seen = NothingSeen
    /\ rng = InvalidArray
    /\ cfg = [fatal |-> FALSE, echo |-> {}, hwOff |-> RInt(0),
              hasCS |-> FALSE, wired |-> FALSE, watched |-> FALSE]
    /\ call = NoCall

\* x.string_value()
XStringValue ==
    /\ call' = [NoCall EXCEPT
                    !.op = "string_value", !.q = "x",
                    !.ret = IF lq["x"].cls = "ArrayLQ"
                            THEN ArrayStringValue(lq["x"])
                            ELSE StringValue(lq["x"])]
    /\ UNCHANGED <<lq, hw, seen, rng, cfg>>

\* x.coerce_to_type(s) of the text s that x.string_value() just returned.
XCoerceDisplayString ==
    /\ call.op = "string_value"
    /\ LET Q == lq["x"]
           s == call.ret
           ok == Q.cls = "ArrayLQ" \/ TextCoercible(Q.dtype, s)
       IN  call' = [NoCall EXCEPT
                       !.op = "coerce_to_type", !.q = "x", !.arg = s,
                       !.exc = IF ok THEN "none" ELSE "ValueError",
                       !.ret = IF ~ok THEN None
                               ELSE IF Q.cls = "ArrayLQ"
                               THEN ArrayCoerceText(Q.dtype, s)
                               ELSE CoerceText(Q.dtype, s)]
    /\ UNCHANGED <<lq, hw, seen, rng, cfg>>

NextDisplay == XStringValue \/ XCoerceDisplayString

SpecDisplay == InitDisplay /\ [][NextDisplay]_vars

\* --------------------------------------------------------- a range

\* LQRange.__init__ on quantities constructed with default values, with
\* center and span (New_Range) or without: step.update_value(
\* compute_step(min, max, num)) runs before any signal is connected. With
\* watched, a display is then connected to step.
ConstructRangeOf(dtype, floorDiv, hasCS, fatal, decimals, watched) ==
    LET l0 == [q \in Names |->
                 IF q = "x"
                 THEN NewLQ("float", RInt(DefaultInitial), DefaultDecimals)
                 ELSE NewRangeMembersOf(dtype, RInt(DefaultInitial), decimals)[q]]
        c0 == [fatal |-> fatal, echo |-> {}, hwOff |-> RInt(0),
               hasCS |-> hasCS, wired |-> FALSE, watched |-> FALSE,
               floorDiv |-> floorDiv]
        M == Run(Machine(l0, RInt(DefaultInitial), NothingSeen, InvalidArray, c0,
                         <<UpdateValueFrame("step", CurrentStep(l0),
                                            TRUE, TRUE, "default", FALSE)>>),
                 MaxSteps)
    IN  /\ lq = M.lq
        /\ hw = M.hw
        /\ seen = M.seen
        /\ rng = M.rng
        /\ cfg = [c0 EXCEPT !.wired = TRUE, !.watched = watched]
        /\ call = NoCall

\* The same for quantities of the default dtype, float: / divides exactly
\* under either Python.
ConstructRange(hasCS, fatal, decimals, watched) ==
    ConstructRangeOf("float", FALSE, hasCS, fatal, decimals, watched)

\* A range of min, max, step and num.
InitRange ==
    \E fatal \in BOOLEAN, decimals \in {DefaultDecimals, IntDecimals} :
        ConstructRange(FALSE, fatal, decimals, TRUE)

\* Values a caller passes to update_value of min, max, center and span.
RangeVals == {RInt(k) : k \in 0..MaxVal}
\* Values a caller passes to update_value of num.
NumVals == {RInt(k) : k \in 1..MaxNum}
\* Values a caller passes to update_value of step: halves, and a value
\* just off the step the range implies.
StepVals ==
    {Rat(k, 2) : k \in (-1)..(2 * MaxVal)}
        \cup {RAdd(CurrentStep(lq), Rat(1, 1000))}

InputsOf(q) ==
    IF q = "num" THEN NumVals ELSE IF q = "step" THEN StepVals ELSE RangeVals

\* lq.update_value(v) with default options, on a member of the range.
RangeUpdateValue ==
    /\ Running
    /\ \E q \in RangeNames :
        /\ q \in {"center", "span"} => cfg.hasCS
        /\ \E v \in InputsOf(q) : ExternalCall(DefaultUpdate(q, v))

NextRange == RangeUpdateValue

SpecRange == InitRange /\ [][NextRange]_vars

\* A range with center and span, as New_Range builds it.
InitCS ==
    \E fatal \in BOOLEAN : ConstructRange(TRUE, fatal, DefaultDecimals, FALSE)

SpecCS == InitCS /\ [][NextRange]_vars

\* LQRange(min, max, step, num) on quantities of dtype int, run by an
\* interpreter whose / on ints divides exactly (Python 3) or floors
\* (Python 2).
InitIntRange ==
    \E fatal \in BOOLEAN, floorDiv \in BOOLEAN :
        ConstructRangeOf("int", floorDiv, FALSE, fatal, DefaultDecimals, TRUE)

\* Values a caller passes to update_value of min and max of an int range.
IntRangeVals == {RInt(0), RInt(1), RInt(2 * MaxVal + 1)}
\* Values a caller passes to update_value of step of an int range.
IntStepVals == {RInt(1), RInt(2), Rat(5, 2)}

IntInputsOf(q) ==
    IF q = "num" THEN NumVals
    ELSE IF q = "step" THEN IntStepVals ELSE IntRangeVals

\* lq.update_value(v) with default options, on a member of the int range.
IntRangeUpdateValue ==
    /\ Running
    /\ \E q \in {"min", "max", "step", "num"} :
        \E v \in IntInputsOf(q) : ExternalCall(DefaultUpdate(q, v))

NextIntRange == IntRangeUpdateValue

SpecIntRange == InitIntRange /\ [][NextIntRange]_vars

\* ------------------------------------------- the array of a range

\* A read of the array property: the cached array if it is valid; else
\* numpy.linspace(min, max, num), which raises ValueError for num < 0 and
\* otherwise becomes the cache.
RangeArray ==
    /\ Running
    /\ IF ~rng.array_valid /\ lq["num"].val.n < 0
       THEN /\ call' = [NoCall EXCEPT !.op = "array", !.exc = "ValueError"]
            /\ UNCHANGED rng
       ELSE /\ call' = [NoCall EXCEPT !.op = "array"]
            /\ rng' = ArrayProperty(lq, rng)
    /\ UNCHANGED <<lq, hw, seen, cfg>>

\* Values a caller passes to update_value(v, send_signal=False) of max and
\* of num.
QuietInputsOf(q) == IF q = "num" THEN NumVals ELSE {RInt(MaxVal)}

\* lq.update_value(v, send_signal=False) on max or num.
RangeUpdateValueQuiet ==
    /\ Running
    /\ \E q \in {"max", "num"} :
        \E v \in QuietInputsOf(q) :
            ExternalCall(UpdateValueFrame(q, v, TRUE, FALSE, "default", FALSE))

\* lq.update_value(v) with default options on min, max or num.
RangeUpdateMinMaxNum ==
    /\ Running
    /\ \E q \in {"min", "max", "num"} :
        \E v \in InputsOf(q) : ExternalCall(DefaultUpdate(q, v))

NextCache == RangeUpdateMinMaxNum \/ RangeUpdateValueQuiet \/ RangeArray

\* A range of min, max, step and num with no display connected.
InitCache ==
    \E fatal \in BOOLEAN : ConstructRange(FALSE, fatal, DefaultDecimals, FALSE)

\* A range whose array is read between updates of its members.
SpecCache == InitCache /\ [][NextCache]_vars

\* ------------------------------------------------------------ claims

\* The last external call was x.update_value and it returned.
XUpdated == call.op = "update_value" /\ call.q = "x" /\ Running

\* C1: update_value(v) with v coercing to the current value invokes no
\* hardware write hook, emits no notification, leaves the stored value as it
\* was (equal to the coerced v) and clears the reread suppression flag.
C1_NoSpuriousUpdate ==
    (XUpdated /\ call.same) =>
        /\ call.nWrite = 0
        /\ call.nNotify = 0
        /\ SameValues(lq["x"].val, CoerceToType(lq["x"].dtype, call.arg))
        /\ ~lq["x"].in_reread_loop

\* C1's case: a value that coerces (1/2 on an int quantity) equal to the
\* stored value, passed with hardware update and signals on, to a quantity
\* with a write hook and a bound observer.
C1_Witness ==
    /\ XUpdated /\ call.same
    /\ call.update_hardware /\ call.send_signal
    /\ lq["x"].hasWrite /\ cfg.echo # {}
    /\ lq["x"].dtype = "int" /\ call.arg = Rat(1, 2)

\* C2: an update_value call with send_signal=true whose coerced value
\* differs from the stored one notifies the observers before it returns, in
\* every hardware configuration.
C2_ChangeIsNotified ==
    (XUpdated /\ call.send_signal /\ ~call.same) => call.nNotify >= 1

\* C3: on a quantity with a write hook and no observers, every update_value
\* call with update_hardware=true that changes the stored value invokes the
\* write hook exactly once, with the new value, and the read hook at most
\* once.
C3_OneWritePerCall ==
    (XUpdated /\ call.update_hardware /\ ~call.same
        /\ lq["x"].hasWrite /\ cfg.echo = {}) =>
        /\ call.nWrite = 1
        /\ SameValues(hw, CoerceToType(lq["x"].dtype, call.arg))
        /\ call.nRead <= 1

\* C4: with reread-after-write enabled, a read hook that returns a value
\* different from the one written and one observer feeding each notified
\* value back into update_value, an external update_value that changes the
\* value causes exactly one hardware write and one hardware read, and the
\* chain of nested calls terminates.
C4_OneWriteOneRead ==
    (/\ call.op = "update_value" /\ call.q = "x"
     /\ call.update_hardware /\ call.send_signal
     /\ call.reread_hardware = "default" /\ ~call.same
     /\ lq["x"].hasWrite /\ lq["x"].hasRead
     /\ lq["x"].reread_from_hardware_after_write
     /\ ~RIsZero(cfg.hwOff) /\ cfg.echo = {"float"}) =>
        /\ ~call.diverged
        /\ call.nWrite = 1
        /\ call.nRead = 1

\* The last external call was update_value on member q of the range, and
\* it returned.
RangeUpdated(q) == call.op = "update_value" /\ call.q = q /\ Running

\* The range in l has num >= 2 and a step within the tolerance of
\* (max - min)/(num - 1).
Consistent(l) ==
    /\ l["num"].val.n >= 2
    /\ RLt(RAbs(RSub(l["step"].val, CurrentStep(l))), Tolerance(l))

\* v is within the tolerance of the step the range in l implies.
CloseStep(l, v) == RLt(RAbs(RSub(v, CurrentStep(l))), Tolerance(l))

\* C5: after an external update_value and its cascade returned (no slot
\* raised), the last value delivered to an observer of step, on the text
\* channel and on the float channel, is step's stored value.
C5_ObserversSeeStoredValue ==
    (call.op = "update_value" /\ Running /\ call.slotErr = 0) =>
        /\ seen["text"] # None => seen["text"] = StringValue(lq["step"])
        /\ seen["float"] # None => seen["float"] = lq["step"].val

\* C6: after create_range and any sequence of completed default
\* update_value calls on min, max, num and step that leaves num >= 2,
\* |step - (max - min)/(num - 1)| < 10^-decimals.
C6_RangeConsistency ==
    (Running /\ lq["num"].val.n >= 2) => Consistent(lq)

\* C7: after num.update_value(1) returned, num is 1, step is max - min and
\* the array is [min].
C7_NumOne ==
    (RangeUpdated("num") /\ call.arg = RInt(1)) =>
        /\ lq["num"].val = RInt(1)
        /\ lq["step"].val = RSub(lq["max"].val, lq["min"].val)
        /\ ArrayProperty(lq, rng).array = <<lq["min"].val>>

C9_StepRecalculatesNum ==
    [][(/\ Consistent(lq)
        /\ call'.op = "update_value" /\ call'.q = "step"
        /\ ~call'.crashed /\ ~call'.diverged
        /\ ~RIsZero(call'.arg)
        /\ ~CloseStep(lq, call'.arg)) =>
            /\ lq'["num"].val =
                 RInt(Floor(RDiv(RSub(lq["max"].val, lq["min"].val), call'.arg)) + 1)
            /\ lq'["step"].val = CurrentStep(lq')]_vars

\* C10: in a range with center and span, after update_value changed center
\* or span and returned, min = center - span/2 and max = center + span/2.
C10_CenterSpanMoveMinMax ==
    (/\ call.op = "update_value" /\ call.q \in {"center", "span"}
     /\ ~call.same /\ Running) =>
        /\ lq["min"].val =
             RSub(lq["center"].val, RMul(Rat(1, 2), lq["span"].val))
        /\ lq["max"].val =
             RAdd(lq["center"].val, RMul(Rat(1, 2), lq["span"].val))

\* C11: in a range with center and span, after update_value changed min or
\* max and returned, center = (min + max)/2 and span = max - min.
C11_MinMaxMoveCenterSpan ==
    (/\ call.op = "update_value" /\ call.q \in {"min", "max"}
     /\ ~call.same /\ Running) =>
        /\ lq["center"].val =
             RMul(Rat(1, 2), RAdd(lq["min"].val, lq["max"].val))
        /\ lq["span"].val = RSub(lq["max"].val, lq["min"].val)

\* C12: an external update_value on a member of the range (on step with a
\* nonzero value) triggers a cascade of at most MaxSteps steps, and the call
\* returns to its caller.
C12_CascadeReturns ==
    (/\ call.op = "update_value" /\ call.q \in RangeNames
     /\ call.q = "step" => ~RIsZero(call.arg)) =>
        /\ ~call.diverged
        /\ ~call.crashed
        /\ call.exc = "none"

\* C13: num >= 1 in every state reached by create_range and update_value
\* calls on its members (the caller passing num only values >= 1).
C13_NumAtLeastOne == lq["num"].val.n >= 1

\* C14: New under a name the registry already holds fails with
\* DuplicateNameError and leaves the registry as it was: the name still
\* maps to the first quantity, with its value and its listeners.
C14_DuplicateNameRejected ==
    [][call'.op = "New" =>
        /\ call'.exc = "DuplicateNameError"
        /\ lq'["x"] = lq["x"]
        /\ cfg'.echo = cfg.echo]_vars

\* The transition is x.update_choice_index_value(i).
ChoiceCall(i) ==
    /\ call'.op = "update_choice_index_value" /\ call'.q = "x"
    /\ call'.arg = RInt(i)

\* C15: for every valid index i, update_choice_index_value(i) returns with
\* the i-th choice's value stored, and when it changed the value exactly one
\* choice-index notification was emitted, carrying i.
C15_ChoiceRoundTrip ==
    [][\A i \in 0..(MaxChoices - 1) :
        (ChoiceCall(i) /\ i < Len(lq["x"].choices)) =>
            /\ call'.exc = "none"
            /\ lq'["x"].val = lq["x"].choices[i + 1]
            /\ lq'["x"].val # lq["x"].val => call'.choiceIdx = <<i>>]_vars

\* C16: update_choice_index_value(i) with i outside 0..n-1, negative i
\* included, raises an index error to the caller, leaves the stored value
\* as it was and emits nothing.
C16_BadIndexRejected ==
    [][\A i \in (-(MaxChoices + 1))..MaxChoices :
        (ChoiceCall(i) /\ (i < 0 \/ i >= Len(lq["x"].choices))) =>
            /\ call'.exc = "IndexError"
            /\ lq'["x"].val = lq["x"].val
            /\ call'.nNotify = 0]_vars

\* C17: update_value on an array quantity with an array of another shape
\* than the stored one replaces the stored value and, with send_signal,
\* emits a notification, also when the two broadcast to equal elements
\* ([1] against [1, 1]).
C17_ShapeChangeIsAChange ==
    [][(/\ call'.op = "update_value" /\ call'.q = "x"
        /\ lq["x"].cls = "ArrayLQ"
        /\ Size(call'.arg) # Size(lq["x"].val)) =>
            /\ lq'["x"].val = ArrayCoerceToType(lq["x"].dtype, call'.arg)
            /\ call'.send_signal => call'.nNotify = 1]_vars

\* C18: update_value with an input that cannot be coerced raises the
\* coercion error to its caller, with the stored value and the hardware as
\* they were, no write hook call and no notification.
C18_CoercionErrorAborts ==
    [][(/\ call'.op = "update_value" /\ call'.q = "x"
        /\ ~Coercible(call'.arg)) =>
            /\ call'.exc = "ValueError"
            /\ lq'["x"].val = lq["x"].val
            /\ hw' = hw
            /\ call'.nWrite = 0
            /\ call'.nNotify = 0]_vars

\* C18's case: the rejected input was passed, with hardware update and
\* signals on, to a quantity that has a write hook and a bound observer and
\* holds a value other than its initial one.
C18_Witness ==
    /\ call.op = "update_value" /\ call.arg = NotANumber
    /\ call.exc = "ValueError"
    /\ call.update_hardware /\ call.send_signal
    /\ lq["x"].hasWrite /\ cfg.echo # {}
    /\ lq["x"].val = RInt(1)

\* C19: step.update_value(0) changes step and makes its subscriber
\* recalc_with_new_step fail (division by zero); the other subscribers of
\* step, its displays on the text and float channels, still receive the new
\* value, and the call returns normally with 0 stored.
C19_FailingSubscriberIsIsolated ==
    [][(/\ call'.op = "update_value" /\ call'.q = "step"
        /\ RIsZero(call'.arg)
        /\ ~call'.same
        /\ ~CloseStep(lq, call'.arg)) =>
            /\ ~call'.crashed
            /\ call'.exc = "none"
            /\ lq'["step"].val = RInt(0)
            /\ seen'["float"] = RInt(0)
            /\ seen'["text"] = StringValue(lq'["step"])]_vars

\* A value of Python type dtype: an int is a whole number. (A float with a
\* whole value is not told apart from an int.)
OfType(dtype, v) ==
    /\ Coercible(v)
    /\ v.d # 0
    /\ dtype = "int" => v.d = 1

\* C20: in every reachable state of an int-typed range, the stored value of
\* each quantity is of the quantity's declared type.
C20_StoredValueOfDeclaredType ==
    \A q \in Names : OfType(lq[q].dtype, lq[q].val)

\* v is within half a unit of the sixth significant digit of w.
WithinPrecision(v, w) ==
    \/ v = w
    \/ /\ ~RIsZero(w)
       /\ ~RLt(RMul(RAbs(w), Rat(1, 2 * Pow10(5))), RAbs(RSub(v, w)))

\* The value coerce_to_type returned equals the stored value of x.
SameAsOriginal(Q, ret) ==
    CASE Q.cls = "ArrayLQ" -> ArraySameValues(ret, Q.val)
      [] Q.dtype = "str" -> ret = Q.val
      [] Q.dtype = "float" -> WithinPrecision(ret, Q.val)
      [] OTHER -> SameValues(ret, Q.val)

\* C21: for a bool, int, str or array quantity, coerce_to_type of the
\* text string_value returned gives a value equal to the stored one; for a
\* float quantity, one equal up to the six significant digits of "%g".
C21_DisplayRoundTrip ==
    call.op = "coerce_to_type" =>
        /\ call.exc = "none"
        /\ SameAsOriginal(lq["x"], call.ret)

\* C22: when a hardware hook raises in an external update_value or
\* read_from_hardware (not in a call a signal made), the exception reaches
\* the caller, the hook that raised was invoked once in the call, and the
\* call emitted no notification.
C22_HookFailurePropagates ==
    (call.failed # "none" /\ ~call.failInSlot) =>
        /\ call.exc = "IOError"
        /\ ~call.crashed
        /\ call.nNotify = 0
        /\ call.failed = "write" => (call.nWrite = 1 /\ call.nRead = 0)
        /\ call.failed = "read" => call.nRead = 1

\* The read hook raised in the reread of an update_value that changed the
\* value, wrote it and was to notify an observer.
C22_Witness ==
    /\ call.op = "update_value" /\ call.failed = "read" /\ ~call.failInSlot
    /\ call.exc = "IOError"
    /\ call.send_signal /\ ~call.same
    /\ call.nWrite = 1
    /\ cfg.echo # {}

\* C23: between external calls, the array a read of the array property
\* returns is numpy.linspace of the current min, max and num: a valid cache
\* holds num evenly spaced values from min to max.
C23_ArrayIsCurrent ==
    (Running /\ rng.array_valid) =>
        rng.array = Linspace(lq["min"].val, lq["max"].val, lq["num"].val.n)

\* The external call recorded in c returned to its caller.
Returned(c) == c.exc = "none" /\ ~c.crashed /\ ~c.diverged

\* C24: send_display_updates(force) emits exactly when val differs from
\* oldval or force is set; if it emitted, oldval equals val when it returns;
\* if it did not, the quantity is as it was. And when update_value with
\* send_signal=True returns, oldval equals val.
C24_NotifyIffChanged ==
    [][/\ (call'.op = "send_display_updates" /\ Returned(call')) =>
            /\ call'.nNotify >= 1 <=>
                    (~SameValues(lq["x"].oldval, lq["x"].val) \/ call'.force)
            /\ call'.nNotify >= 1 =>
                    SameValues(lq'["x"].oldval, lq'["x"].val)
            /\ call'.nNotify = 0 => lq' = lq
       /\ (call'.op = "update_value" /\ call'.send_signal /\ Returned(call')) =>
            SameValues(lq'["x"].oldval, lq'["x"].val)]_vars

\* A forced send_display_updates of an unchanged value emitted, and an
\* observer fed a payload back into update_value.
C24_Witness ==
    /\ call.op = "send_display_updates" /\ call.force /\ Returned(call)
    /\ call.nNotify >= 1 /\ call.nUpd >= 1
    /\ SameValues(lq["x"].oldval, lq["x"].val)

\* C25: read_from_hardware of a quantity without a read hook returns val
\* and changes and emits nothing; with a read hook it calls the hook once,
\* stores the coerced result, returns it, and emits exactly when
\* send_signal is set and the result differs from the val before the call.
C25_ReadFromHardware ==
    [][(call'.op = "read_from_hardware" /\ Returned(call')) =>
        IF ~lq["x"].hasRead
        THEN /\ call'.ret = lq["x"].val
             /\ lq' = lq /\ hw' = hw /\ seen' = seen
             /\ call'.nRead = 0 /\ call'.nWrite = 0 /\ call'.nNotify = 0
        ELSE LET result == CoerceToType(lq["x"].dtype,
                                        HardwareReadFunc([hw |-> hw, cfg |-> cfg]))
             IN  /\ call'.nRead = 1
                 /\ lq'["x"].val = result
                 /\ call'.ret = result
                 /\ call'.nNotify >= 1 <=>
                        (call'.send_signal /\ ~SameValues(lq["x"].val, result))]_vars

\* C25 (amended): read_from_hardware of a quantity without a read hook
\* returns val and changes and emits nothing; with a read hook it calls the
\* hook, emits exactly when send_signal is set and the coerced result
\* differs from the val before the call, and returns the val the quantity
\* holds at the return: the coerced result, read by a single call of the
\* hook, unless a slot re-entered update_value during the emits.
C25_ReadReturnsCurrentValue ==
    [][(call'.op = "read_from_hardware" /\ Returned(call')) =>
        IF ~lq["x"].hasRead
        THEN /\ call'.ret = lq["x"].val
             /\ lq' = lq /\ hw' = hw /\ seen' = seen
             /\ call'.nRead = 0 /\ call'.nWrite = 0 /\ call'.nNotify = 0
        ELSE LET result == CoerceToType(lq["x"].dtype,
                                        HardwareReadFunc([hw |-> hw, cfg |-> cfg]))
             IN  /\ call'.nRead >= 1
                 /\ call'.ret = lq'["x"].val
                 /\ call'.nNotify >= 1 <=>
                        (call'.send_signal /\ ~SameValues(lq["x"].val, result))
                 /\ call'.nUpd = 0 =>
                        /\ call'.nRead = 1
                        /\ lq'["x"].val = result
                        /\ hw' = hw]_vars

\* A read_from_hardware whose emits made a slot call update_value
\* returned a value the device did not report.
C25_Witness ==
    /\ call.op = "read_from_hardware" /\ Returned(call)
    /\ lq["x"].hasRead /\ call.send_signal
    /\ call.nNotify >= 1 /\ call.nUpd >= 1
    /\ call.ret = lq["x"].val
    /\ call.ret # CoerceToType(lq["x"].dtype,
                                HardwareReadFunc([hw |-> hw, cfg |-> cfg]))

\* C26: when an external num.update_value(n) with n >= 1 that changed num
\* has returned, updated_range has been emitted exactly once during the
\* call.
C26_RangeUpdatedOnce ==
    (RangeUpdated("num") /\ ~call.same /\ call.arg.n >= 1) => call.nRange = 1

====
